---- MODULE Spec2Model ----
(***************************************************************************)
(* A model of elmongoose's request pipeline (lib/helpers.js):              *)
(*   - backOffRequest: the retrying HTTP executor and its JSON envelope     *)
(*     handling,                                                           *)
(*   - the result normalizers of doSearchAndNormalizeResults and           *)
(*     doAggAndNormalizeResults,                                           *)
(*   - the query builder (mergeSearchOptions, mergeSearchBody,             *)
(*     buildTermFilters).                                                  *)
(*                                                                         *)
(* JavaScript values are modelled structurally: an object is a record     *)
(* whose DOMAIN is its set of keys (an absent key reads as Undefined), an  *)
(* array is a sequence, a string that the code transforms is a sequence    *)
(* of one-character strings.                                               *)
(***************************************************************************)
EXTENDS Integers, Sequences, FiniteSets, TLC

(***************************************************************************)
(* JavaScript helpers                                                      *)
(***************************************************************************)
Undefined == [type |-> "undefined"]

EmptyObj == [k \in {} |-> Undefined]

Get(obj, key) == IF key \in DOMAIN obj THEN obj[key] ELSE Undefined

(***************************************************************************)
(* backOffRequest: constants of the retry policy                           *)
(***************************************************************************)
maxAttempts == 3

backOffRate == 500

\* Math.random() * backOffRate, sampled at whole milliseconds: [0, backOffRate)
RandomJitter == 0 .. (backOffRate - 1)

(***************************************************************************)
(* The outcomes the `request` library can hand to the callback.            *)
(***************************************************************************)
NoErr == "null"

RetryableCodes == {"ECONNRESET", "EPIPE", "ETIMEDOUT"}

ErrCodes == RetryableCodes \cup {"ECONNREFUSED"}

\* On a transport error the callback gets no body: JSON.parse(undefined)
\* coerces it to the text "undefined".
BodyUndefined == "undefined"

BodyHtml == "<html>502 Bad Gateway</html>"

BodyEmptyObj == "{}"

BodyEngineError == "{\"error\":\"IndexMissingException\"}"

BodyNoMatch == "{\"hits\":{\"total\":0,\"hits\":[]}}"

BodyTwoHits == "{\"hits\":{\"total\":2,\"hits\":[\"h1\",\"h2\"]}}"

BodyTotalOnly == "{\"hits\":{\"total\":3}}"

BodyAggNoMatch == "{\"hits\":{\"total\":0,\"hits\":[]},\"aggregations\":{\"buckets\":[]}}"

BodyAggTwoHits == "{\"hits\":{\"total\":2,\"hits\":[\"h1\",\"h2\"]},\"aggregations\":{\"buckets\":[\"siamese\"]}}"

ResponseBodies ==
  {BodyHtml, BodyEmptyObj, BodyEngineError, BodyNoMatch, BodyTwoHits,
   BodyTotalOnly, BodyAggNoMatch, BodyAggTwoHits}

\* JSON.parse over the body texts above: either it throws or it yields the
\* parsed value.
JSONparse(text) ==
  CASE text = BodyEmptyObj ->
         [threw |-> FALSE, value |-> EmptyObj]
    [] text = BodyEngineError ->
         [threw |-> FALSE, value |-> [error |-> "IndexMissingException"]]
    [] text = BodyNoMatch ->
         [threw |-> FALSE, value |-> [hits |-> [total |-> 0, hits |-> <<>>]]]
    [] text = BodyTwoHits ->
         [threw |-> FALSE,
          value |-> [hits |-> [total |-> 2, hits |-> <<"h1", "h2">>]]]
    [] text = BodyTotalOnly ->
         [threw |-> FALSE, value |-> [hits |-> [total |-> 3]]]
    [] text = BodyAggNoMatch ->
         [threw |-> FALSE,
          value |-> [hits |-> [total |-> 0, hits |-> <<>>],
                     aggregations |-> [buckets |-> <<>>]]]
    [] text = BodyAggTwoHits ->
         [threw |-> FALSE,
          value |-> [hits |-> [total |-> 2, hits |-> <<"h1", "h2">>],
                     aggregations |-> [buckets |-> <<"siamese">>]]]
    [] OTHER -> [threw |-> TRUE]

\* The request options the callers build (method, url, serialized body).
SearchReqOpts ==
  [method |-> "POST",
   url |-> "http://localhost:9200/cats/_search",
   body |-> "{\"query\":{\"bool\":{}},\"from\":0,\"size\":25}"]

AggReqOpts ==
  [method |-> "POST",
   url |-> "http://localhost:9200/cats/_search",
   body |-> "{\"from\":0,\"size\":25,\"aggs\":{\"ElmongooseAgg\":{\"terms\":{\"field\":\"breed\",\"size\":0}}}}"]

\* index(options): PUT of the serialized document to the document uri
IndexReqOpts ==
  [method |-> "PUT",
   url |-> "http://localhost:9200/cats/cat/5",
   body |-> "{\"name\":\"Simba\"}"]

\* unindex(options): DELETE of the document uri, no body
UnindexReqOpts ==
  [method |-> "DELETE",
   url |-> "http://localhost:9200/cats/cat/5"]

Ops == {"search", "agg", "index", "unindex"}

ReqOptsOf(o) ==
  CASE o = "search" -> SearchReqOpts
    [] o = "agg" -> AggReqOpts
    [] o = "index" -> IndexReqOpts
    [] o = "unindex" -> UnindexReqOpts

(***************************************************************************)
(* backOffRequest: the callback given to request()                         *)
(***************************************************************************)
\* the retry condition of the error branch
ShouldRetry(err, att) == err \in RetryableCodes /\ att <= maxAttempts

\* variant: a flat delay that does not grow with the attempt number
WaitTimeFlat(att, r) == backOffRate + r

\* the delay handed to setTimeout after the attempt numbered `att` failed
WaitTime(att, r) == (backOffRate * att) + r

\* the error branch: either a timer is scheduled or cb(error) is called
ErrorBranchCalls(err, att, ro) ==
  IF err = NoErr \/ ShouldRetry(err, att)
    THEN <<>>
    ELSE << [kind |-> "transport", details |-> err, attempts |-> att,
             reqOpts |-> ro] >>

\* variant: the `error` field of the parsed reply is not looked at
ParseBranchCallsIgnoreErrorField(body, ro) ==
  LET parsed == JSONparse(body) IN
  IF parsed.threw
    THEN << [kind |-> "malformed", elasticsearchReply |-> body,
             reqOpts |-> ro] >>
    ELSE << [kind |-> "success", body |-> parsed.value] >>

\* variant: a parse failure is swallowed and an empty reply is passed on
ParseBranchCallsSwallowParseError(body, ro) ==
  LET parsed == JSONparse(body) IN
  IF parsed.threw
    THEN << [kind |-> "success", body |-> EmptyObj] >>
    ELSE IF "error" \in DOMAIN parsed.value
      THEN << [kind |-> "engine", error |-> parsed.value.error] >>
      ELSE << [kind |-> "success", body |-> parsed.value] >>

\* the try/catch around JSON.parse and the success case; runs after the
\* error branch whatever that branch did.  `if (parsedBody.error)`: every
\* reply text above that has an `error` key carries a non-empty string,
\* which is truthy, so the test is the presence of the key.
ParseBranchCalls(body, ro) ==
  LET parsed == JSONparse(body) IN
  IF parsed.threw
    THEN << [kind |-> "malformed", elasticsearchReply |-> body,
             reqOpts |-> ro] >>
    ELSE IF "error" \in DOMAIN parsed.value
      THEN << [kind |-> "engine", error |-> parsed.value.error] >>
      ELSE << [kind |-> "success", body |-> parsed.value] >>

\* variant: nothing is reported when the transport failed
CallbackCallsSilentOnError(err, body, att, ro) ==
  IF err # NoErr THEN <<>> ELSE ParseBranchCalls(body, ro)

\* every cb(...) invocation made while handling one response, in order
CallbackCalls(err, body, att, ro) ==
  ErrorBranchCalls(err, att, ro) \o ParseBranchCalls(body, ro)

(***************************************************************************)
(* Result normalizers: the callbacks doSearchAndNormalizeResults and       *)
(* doAggAndNormalizeResults pass to backOffRequest.  `new Error(error)`    *)
(* keeps only the message of the error it wraps.                           *)
(***************************************************************************)
HasHitArray(body) ==
  "hits" \in DOMAIN body.hits /\ Len(body.hits.hits) > 0

\* variant: `hits` is only set when the reply carries a non-empty hit array
NormalizeSearchNoDefault(call) ==
  IF call.kind # "success"
    THEN [err |-> "Elasticsearch search error"]
    ELSE IF "hits" \notin DOMAIN call.body
      THEN [err |-> "Unexpected Elasticsearch reply"]
      ELSE [err |-> NoErr,
            result |->
              [total |-> call.body.hits.total]
              @@ (IF HasHitArray(call.body)
                    THEN [hits |-> call.body.hits.hits] ELSE EmptyObj)]

NormalizeSearch(call) ==
  IF call.kind # "success"
    THEN [err |-> "Elasticsearch search error"]
    ELSE IF "hits" \notin DOMAIN call.body
      THEN [err |-> "Unexpected Elasticsearch reply"]
      ELSE [err |-> NoErr,
            result |-> [total |-> call.body.hits.total,
                        hits |-> IF HasHitArray(call.body)
                                   THEN call.body.hits.hits ELSE <<>>]]

NormalizeAgg(call) ==
  IF call.kind # "success"
    THEN [err |-> "Elasticsearch search error"]
    ELSE IF "hits" \notin DOMAIN call.body
      THEN [err |-> "Unexpected Elasticsearch reply"]
      ELSE [err |-> NoErr,
            result |->
              [total |-> call.body.hits.total,
               aggregation |-> Get(call.body, "aggregations")]
              @@ (IF HasHitArray(call.body)
                    THEN [hits |-> call.body.hits.hits] ELSE EmptyObj)]

\* the callback index() passes to backOffRequest: an error is logged and
\* nothing is emitted, otherwise the event is emitted with the parsed reply
IndexCallback(call) ==
  IF call.kind # "success"
    THEN [err |-> "Elasticsearch document indexing error"]
    ELSE [err |-> NoErr, event |-> "elmongoose-indexed", body |-> call.body]

\* the callback unindex() passes to backOffRequest
UnindexCallback(call) ==
  IF call.kind # "success"
    THEN [err |-> "Elasticsearch document index deletion error"]
    ELSE [err |-> NoErr, event |-> "elmongoose-unindexed", body |-> call.body]

\* what the caller of backOffRequest does with one cb(...) invocation
Normalize(o, call) ==
  CASE o = "search" -> NormalizeSearch(call)
    [] o = "agg" -> NormalizeAgg(call)
    [] o = "index" -> IndexCallback(call)
    [] o = "unindex" -> UnindexCallback(call)

(***************************************************************************)
(* Query builder values.  A string is a sequence of characters, an array   *)
(* a sequence of values, an object the sequence of its entries in          *)
(* Object.keys order.                                                      *)
(***************************************************************************)
Null == [t |-> "null"]

Str(chars) == [t |-> "string", v |-> chars]

Num(n) == [t |-> "number", v |-> n]

Arr(elems) == [t |-> "array", v |-> elems]

Obj(entries) == [t |-> "object", entries |-> entries]

UpperChars == <<"A", "B", "C", "D", "E", "F", "G", "H", "I", "J", "K", "L", "M",
                "N", "O", "P", "Q", "R", "S", "T", "U", "V", "W", "X", "Y", "Z">>

LowerChars == <<"a", "b", "c", "d", "e", "f", "g", "h", "i", "j", "k", "l", "m",
                "n", "o", "p", "q", "r", "s", "t", "u", "v", "w", "x", "y", "z">>

LowerChar(c) ==
  IF \E i \in DOMAIN UpperChars : UpperChars[i] = c
    THEN LowerChars[CHOOSE i \in DOMAIN UpperChars : UpperChars[i] = c]
    ELSE c

\* String.prototype.toLowerCase
toLowerCase(chars) == [i \in 1 .. Len(chars) |-> LowerChar(chars[i])]

(***************************************************************************)
(* mergeSearchOptions                                                      *)
(***************************************************************************)
defaultSearchOpts ==
  [mustMatch |-> Null, mustMatchPhrase |-> Null, shouldMatch |-> Null,
   mustFuzzyMatch |-> Null, shouldFuzzyMatch |-> Null, mustNotMatch |-> Null,
   shouldNotMatch |-> Null, mustAllMatch |-> Null, shouldAllMatch |-> Null,
   mustRange |-> Null, shouldRange |-> Null, mustMatchMulti |-> Null,
   shouldMatchMulti |-> Null, mustArray |-> Null, shouldArray |-> Null,
   sort |-> Null, matchAll |-> Null, fuzziness |-> 0, pageSize |-> 25,
   page |-> 1]

NumericKeys == {"fuzziness", "pageSize", "page"}

\* `searchOpts[key]` is falsy: the key is absent, or it is the number 0
\* (objects, even empty ones, are truthy)
Falsy(opts, key) ==
  \/ key \notin DOMAIN opts
  \/ (key \in NumericKeys /\ opts[key] = 0)

\* mergedSearchOpts[key] = searchOpts[key] || defaultSearchOpts[key]
mergeSearchOptions(opts) ==
  [key \in DOMAIN defaultSearchOpts |->
     IF Falsy(opts, key) THEN defaultSearchOpts[key] ELSE opts[key]]

(***************************************************************************)
(* buildTermFilters                                                        *)
(***************************************************************************)
TermFilter(key, val) == [term |-> [key |-> key, val |-> val]]

\* the filters pushed for one key of termOpts
TermFiltersOfEntry(entry) ==
  IF entry.val.t = "array"
    THEN [j \in 1 .. Len(entry.val.v) |-> TermFilter(entry.key, entry.val.v[j])]
    ELSE IF entry.val.t = "string"
      THEN << TermFilter(entry.key, Str(toLowerCase(entry.val.v))) >>
      ELSE << TermFilter(entry.key, entry.val) >>

RECURSIVE TermFiltersFrom(_, _)
TermFiltersFrom(entries, i) ==
  IF i > Len(entries)
    THEN <<>>
    ELSE TermFiltersOfEntry(entries[i]) \o TermFiltersFrom(entries, i + 1)

buildTermFilters(termOpts) == TermFiltersFrom(termOpts.entries, 1)

(***************************************************************************)
(* The other fragment builders                                             *)
(***************************************************************************)
RECURSIVE Flatten(_)
\* concatenation of a sequence of sequences (the pushes of a loop, in order)
Flatten(seqs) ==
  IF seqs = <<>> THEN <<>> ELSE Head(seqs) \o Flatten(Tail(seqs))

\* Object.keys(value).length: own keys of an object, indices of an array or
\* of a string, none for a number
KeyCount(val) ==
  CASE val.t = "object" -> Len(val.entries)
    [] val.t = "array" -> Len(val.v)
    [] val.t = "string" -> Len(val.v)
    [] OTHER -> 0

NotMatchQuery(key, val) ==
  [query |->
     [bool |->
        [must_not |->
           << [multi_match |->
                 [query |-> val, fields |-> key, zero_terms_query |-> "all",
                  boost |-> 3]] >>,
         minimum_should_match |-> 1]]]

NotMatchQueriesOfEntry(entry) ==
  IF entry.val.t = "array"
    THEN [j \in 1 .. Len(entry.val.v) |->
            NotMatchQuery(entry.key, entry.val.v[j])]
    ELSE << NotMatchQuery(entry.key, entry.val) >>

buildNotMatchingQuery(mustNotOpts) ==
  Flatten([i \in 1 .. Len(mustNotOpts.entries) |->
             NotMatchQueriesOfEntry(mustNotOpts.entries[i])])

FuzzyQuery(key, val, fuzziness) ==
  [query |->
     [bool |->
        [should |->
           << [multi_match |->
                 [query |-> val, fields |-> key, zero_terms_query |-> "all",
                  boost |-> 3]],
              [multi_match |->
                 [query |-> val, fields |-> key, zero_terms_query |-> "all",
                  fuzziness |-> fuzziness, boost |-> 1]] >>,
         minimum_should_match |-> 1]]]

FuzzyQueriesOfEntry(entry, fuzziness) ==
  IF entry.val.t = "array"
    THEN [j \in 1 .. Len(entry.val.v) |->
            FuzzyQuery(entry.key, entry.val.v[j], fuzziness)]
    ELSE IF entry.val.t = "string"
      THEN << FuzzyQuery(entry.key, Str(toLowerCase(entry.val.v)), fuzziness) >>
      ELSE << FuzzyQuery(entry.key, entry.val, fuzziness) >>

buildFuzzyMatchingQuery(fuzzyOpts, fuzziness) ==
  Flatten([i \in 1 .. Len(fuzzyOpts.entries) |->
             FuzzyQueriesOfEntry(fuzzyOpts.entries[i], fuzziness)])

\* fuzzyOpts after buildFuzzyMatchingQuery returned: a string value is
\* replaced in place by its lower-cased text (fuzzyOpts[key] = ...)
fuzzyOptsAfter(fuzzyOpts) ==
  Obj([i \in 1 .. Len(fuzzyOpts.entries) |->
         IF fuzzyOpts.entries[i].val.t = "string"
           THEN [key |-> fuzzyOpts.entries[i].key,
                 val |-> Str(toLowerCase(fuzzyOpts.entries[i].val.v))]
           ELSE fuzzyOpts.entries[i]])

\* the loop runs to allOpts.length, which only an array (or string) has
buildAllMatchingQuery(allOpts) ==
  IF allOpts.t \in {"array", "string"}
    THEN [i \in 1 .. Len(allOpts.v) |->
            [query |-> [match |-> ("_all" :> allOpts.v[i])]]]
    ELSE <<>>

buildAllMatchQuery == << [match_all |-> EmptyObj] >>

\* `if (opts.length) opts.forEach(...)`: an object has no length
buildMatchPhraseQuery(opts) ==
  IF opts.t = "array" /\ Len(opts.v) > 0
    THEN [i \in 1 .. Len(opts.v) |-> [query |-> [match_phrase |-> opts.v[i]]]]
    ELSE <<>>

TermsFilter(key, val) == [terms |-> [key |-> key, val |-> val]]

\* variant: a value that is not an array is let through, nothing is thrown
ArrayFiltersThrowNever(termOpts) == FALSE

\* buildArrayFilters throws at the first key whose value is not an array
ArrayFiltersThrow(termOpts) ==
  \E i \in 1 .. Len(termOpts.entries) : termOpts.entries[i].val.t # "array"

\* the filters buildArrayFilters returns when it does not throw
buildArrayFilters(termOpts) ==
  [i \in 1 .. Len(termOpts.entries) |->
     TermsFilter(termOpts.entries[i].key, termOpts.entries[i].val)]

\* typeof value === 'object': objects, arrays and null
TypeofObject(val) == val.t \in {"object", "array", "null"}

RangeFilter(key, val) == [range |-> [key |-> key, val |-> val]]

buildRangeFilter(rangeOpts) ==
  Flatten([i \in 1 .. Len(rangeOpts.entries) |->
             IF TypeofObject(rangeOpts.entries[i].val)
               THEN << RangeFilter(rangeOpts.entries[i].key,
                                   rangeOpts.entries[i].val) >>
               ELSE <<>>])

(***************************************************************************)
(* mergeSearchBody                                                         *)
(***************************************************************************)
\* `searchOpts[key] && Object.keys(searchOpts[key]).length`
Populated(opts, key) ==
  /\ key \in DOMAIN opts
  /\ opts[key] # Null
  /\ KeyCount(opts[key]) > 0

NaN == [type |-> "NaN"]

\* variant: the page number is taken as zero-based
bodyFromZeroBased(opts) ==
  IF Falsy(opts, "page")
    THEN 0
    ELSE IF "pageSize" \in DOMAIN opts
      THEN opts.page * opts.pageSize
      ELSE NaN

\* body.from = searchOpts.page ? (searchOpts.page - 1) * searchOpts.pageSize : 0
bodyFrom(opts) ==
  IF Falsy(opts, "page")
    THEN 0
    ELSE IF "pageSize" \in DOMAIN opts
      THEN (opts.page - 1) * opts.pageSize
      ELSE NaN

\* the fragments one category appends (nothing when it is not populated)
Fragments(opts, key) ==
  IF ~Populated(opts, key)
    THEN <<>>
    ELSE CASE key \in {"mustNotMatch", "shouldNotMatch"} ->
                buildNotMatchingQuery(opts[key])
           [] key \in {"mustFuzzyMatch", "shouldFuzzyMatch"} ->
                buildFuzzyMatchingQuery(opts[key], Get(opts, "fuzziness"))
           [] key \in {"mustAllMatch", "shouldAllMatch"} ->
                buildAllMatchingQuery(opts[key])
           [] key \in {"mustMatch", "shouldMatch"} ->
                buildTermFilters(opts[key])
           [] key = "mustMatchPhrase" ->
                buildMatchPhraseQuery(opts[key])
           [] key \in {"mustArray", "shouldArray"} ->
                buildArrayFilters(opts[key])
           [] key \in {"mustRange", "shouldRange"} ->
                buildRangeFilter(opts[key])
           [] key = "matchAll" ->
                buildAllMatchQuery

\* variant: the range filters are appended before the term filters
mustFiltersRangeFirst(opts) ==
  Fragments(opts, "mustNotMatch") \o Fragments(opts, "mustFuzzyMatch")
    \o Fragments(opts, "mustAllMatch") \o Fragments(opts, "mustRange")
    \o Fragments(opts, "mustMatch") \o Fragments(opts, "mustMatchPhrase")
    \o Fragments(opts, "mustArray") \o Fragments(opts, "matchAll")

\* mustFilters when mergeSearchBody returns, in the order of its statements
mustFilters(opts) ==
  Fragments(opts, "mustNotMatch") \o Fragments(opts, "mustFuzzyMatch")
    \o Fragments(opts, "mustAllMatch") \o Fragments(opts, "mustMatch")
    \o Fragments(opts, "mustMatchPhrase") \o Fragments(opts, "mustArray")
    \o Fragments(opts, "mustRange") \o Fragments(opts, "matchAll")

\* shouldFilters when mergeSearchBody returns
shouldFilters(opts) ==
  Fragments(opts, "shouldNotMatch") \o Fragments(opts, "shouldFuzzyMatch")
    \o Fragments(opts, "shouldAllMatch") \o Fragments(opts, "shouldMatch")
    \o Fragments(opts, "shouldArray") \o Fragments(opts, "shouldRange")

\* the caller's option set after mergeSearchBody ran on it, or on its copy
\* by mergeSearchOptions, which shares the category objects with it: the
\* fuzzy categories are built, and written to, before anything can throw
searchOptsAfter(opts) ==
  [key \in DOMAIN opts |->
     IF key \in {"mustFuzzyMatch", "shouldFuzzyMatch"} /\ Populated(opts, key)
          /\ opts[key].t = "object"
       THEN fuzzyOptsAfter(opts[key])
       ELSE opts[key]]

\* mergeSearchBody throws: buildArrayFilters met a value that is not an array
mergeSearchBodyThrows(opts) ==
  \/ (Populated(opts, "mustArray") /\ ArrayFiltersThrow(opts.mustArray))
  \/ (Populated(opts, "shouldArray") /\ ArrayFiltersThrow(opts.shouldArray))

\* the body mergeSearchBody returns when it does not throw
mergeSearchBody(opts) ==
  LET bool ==
        (IF Len(mustFilters(opts)) > 0
           THEN [must |-> mustFilters(opts)] ELSE EmptyObj)
        @@ (IF Len(shouldFilters(opts)) > 0
              THEN [should |-> shouldFilters(opts)] ELSE EmptyObj)
  IN [query |-> [bool |-> bool],
      from |-> bodyFrom(opts),
      size |-> Get(opts, "pageSize")]
     @@ (IF "sort" \in DOMAIN opts /\ opts.sort # Null
           THEN [sort |-> opts.sort] ELSE EmptyObj)

(***************************************************************************)
(* mergeAggOptions, mergeAggBody                                           *)
(***************************************************************************)
defaultAggOpts ==
  [mustMatch |-> Null, mustMatchPhrase |-> Null, shouldMatch |-> Null,
   mustFuzzyMatch |-> Null, shouldFuzzyMatch |-> Null, mustRange |-> Null,
   shouldRange |-> Null, groupBy |-> Null, pageSize |-> 25, page |-> 1]

\* mergedAggOpts[key] = aggOpts[key] || defaultAggOpts[key]
mergeAggOptions(opts) ==
  [key \in DOMAIN defaultAggOpts |->
     IF Falsy(opts, key) THEN defaultAggOpts[key] ELSE opts[key]]

\* aggBody: the terms aggregation on groupBy, size 0 for all buckets
aggBody(opts) ==
  [ElmongooseAgg |-> [terms |-> [field |-> Get(opts, "groupBy"), size |-> 0]]]

\* the filter-wrapped shape of body.aggs
WrappedAggs(opts, must, should) ==
  [ElmongooseAggWrapper |->
     [filter |->
        [bool |->
           (IF Len(must) > 0 THEN [must |-> must] ELSE EmptyObj)
           @@ (IF Len(should) > 0 THEN [should |-> should] ELSE EmptyObj)],
      aggs |-> aggBody(opts)]]

\* variant: the wrapper is only used when there are must filters
mergeAggBodyWrapOnMust(opts) ==
  LET must == IF Populated(opts, "mustMatch")
                THEN buildTermFilters(opts.mustMatch) ELSE <<>>
      should == IF Populated(opts, "shouldMatch")
                  THEN buildTermFilters(opts.shouldMatch) ELSE <<>>
  IN [from |-> bodyFrom(opts),
      size |-> Get(opts, "pageSize"),
      aggs |-> IF Len(must) > 0
                 THEN WrappedAggs(opts, must, should)
                 ELSE aggBody(opts)]

\* body.from is computed by the same expression as in mergeSearchBody
mergeAggBody(opts) ==
  LET must == IF Populated(opts, "mustMatch")
                THEN buildTermFilters(opts.mustMatch) ELSE <<>>
      should == IF Populated(opts, "shouldMatch")
                  THEN buildTermFilters(opts.shouldMatch) ELSE <<>>
  IN [from |-> bodyFrom(opts),
      size |-> Get(opts, "pageSize"),
      aggs |-> IF Len(must) > 0 \/ Len(should) > 0
                 THEN WrappedAggs(opts, must, should)
                 ELSE aggBody(opts)]

(***************************************************************************)
(* Option sets handed to the query builder                                 *)
(***************************************************************************)
MaxPage == 3

MaxPageSize == 3

MaxArrayLen == 2

Fields == {"name", "breed"}

ScalarValues == {Str(<<"T", "o">>), Str(<<"s", "i">>), Num(5)}

ArrayValues ==
  {Arr(a) : a \in UNION {[1 .. n -> ScalarValues] : n \in 0 .. MaxArrayLen}}

TermValues == ScalarValues \cup ArrayValues

\* objects with the keys of Fields in any insertion order
TermObjects ==
  {Obj(<<>>)}
  \cup {Obj(<<[key |-> k, val |-> v]>>) : k \in Fields, v \in TermValues}
  \cup {Obj(<<[key |-> ks[1], val |-> v1], [key |-> ks[2], val |-> v2]>>) :
          ks \in {p \in Fields \X Fields : p[1] # p[2]},
          v1 \in TermValues, v2 \in ScalarValues}

ShouldObjects ==
  {Obj(<<[key |-> "breed", val |-> Str(<<"S", "i">>)]>>),
   Obj(<<[key |-> "name", val |-> Arr(<<Str(<<"T", "o">>), Num(5)>>)]>>)}

\* paging options with the term categories
PagingTermOptSets ==
  {pg @@ ps @@ mm @@ sm :
     pg \in {EmptyObj} \cup {[page |-> p] : p \in 0 .. MaxPage},
     ps \in {EmptyObj} \cup {[pageSize |-> z] : z \in 0 .. MaxPageSize},
     mm \in {EmptyObj} \cup {[mustMatch |-> o] : o \in TermObjects},
     sm \in {EmptyObj} \cup {[shouldMatch |-> o] : o \in ShouldObjects}}

\* mustMatchPhrase as the tests give it: a list of field-to-phrase entries
\* ([{ name: 'simba' }]) or one field-to-phrase mapping ({ name: 'Puffy' })
PhraseEntries ==
  {Obj(<<[key |-> "name", val |-> Str(<<"s", "i">>)]>>),
   Obj(<<[key |-> "breed", val |-> Str(<<"P", "u">>)]>>)}

PhraseLists == {Arr(a) : a \in UNION {[1 .. n -> PhraseEntries] : n \in 0 .. 2}}

PhraseMappings ==
  {Obj(<<>>)}
  \cup PhraseEntries
  \cup {Obj(<<[key |-> "name", val |-> Str(<<"s", "i">>)],
              [key |-> "breed", val |-> Str(<<"P", "u">>)]>>)}

PhraseOptSets ==
  {mp @@ mm :
     mp \in {[mustMatchPhrase |-> v] : v \in PhraseLists \cup PhraseMappings},
     mm \in {EmptyObj,
             [mustMatch |-> Obj(<<[key |-> "name", val |-> Num(5)]>>)]}}

\* mustArray / shouldArray: per field an array, or a value that is not one
ArrayFieldValues ==
  {Arr(<<Str(<<"S", "i">>), Str(<<"t", "a">>)>>), Arr(<<>>),
   Str(<<"S", "i">>), Num(5)}

ArrayObjects ==
  {Obj(<<>>)}
  \cup {Obj(<<[key |-> k, val |-> v]>>) : k \in Fields, v \in ArrayFieldValues}
  \cup {Obj(<<[key |-> ks[1], val |-> v1], [key |-> ks[2], val |-> v2]>>) :
          ks \in {p \in Fields \X Fields : p[1] # p[2]},
          v1 \in ArrayFieldValues, v2 \in ArrayFieldValues}

ArrayOptSets ==
  {ma @@ sa :
     ma \in {EmptyObj} \cup {[mustArray |-> o] : o \in ArrayObjects},
     sa \in {EmptyObj} \cup {[shouldArray |-> o] : o \in ArrayObjects}}

\* mustRange / shouldRange: per field a range expression, or a string, a
\* number or null
RangeExpression == Obj(<<[key |-> "gt", val |-> Num(8)]>>)

RangeFieldValues == {RangeExpression, Str(<<"8">>), Num(8), Null}

RangeObjects ==
  {Obj(<<>>)}
  \cup {Obj(<<[key |-> k, val |-> v]>>) : k \in Fields, v \in RangeFieldValues}
  \cup {Obj(<<[key |-> ks[1], val |-> v1], [key |-> ks[2], val |-> v2]>>) :
          ks \in {p \in Fields \X Fields : p[1] # p[2]},
          v1 \in RangeFieldValues, v2 \in RangeFieldValues}

RangeOptSets ==
  {mr @@ sr :
     mr \in {EmptyObj} \cup {[mustRange |-> o] : o \in RangeObjects},
     sr \in {EmptyObj} \cup {[shouldRange |-> o] : o \in RangeObjects}}

\* one populated value for every category
FullSearchOpts ==
  [mustNotMatch |->
     Obj(<<[key |-> "status", val |-> Str(<<"A", "r">>)]>>),
   mustFuzzyMatch |->
     Obj(<<[key |-> "name", val |-> Arr(<<Str(<<"M", "a">>), Num(5)>>)]>>),
   mustAllMatch |-> Arr(<<Str(<<"S", "i">>)>>),
   mustMatch |-> Obj(<<[key |-> "name", val |-> Str(<<"T", "o">>)]>>),
   mustMatchPhrase |->
     Arr(<<Obj(<<[key |-> "name", val |-> Str(<<"s", "i">>)]>>)>>),
   mustArray |->
     Obj(<<[key |-> "breed", val |-> Arr(<<Str(<<"S", "i">>)>>)]>>),
   mustRange |-> Obj(<<[key |-> "age", val |-> RangeExpression]>>),
   matchAll |-> Str(<<"*">>),
   shouldNotMatch |->
     Obj(<<[key |-> "status", val |-> Arr(<<Str(<<"A", "r">>), Num(5)>>)]>>),
   shouldFuzzyMatch |->
     Obj(<<[key |-> "name", val |-> Str(<<"M", "a">>)]>>),
   shouldAllMatch |-> Arr(<<Str(<<"t", "a">>), Str(<<"S", "i">>)>>),
   shouldMatch |-> Obj(<<[key |-> "breed", val |-> Str(<<"S", "i">>)]>>),
   shouldArray |->
     Obj(<<[key |-> "name", val |-> Arr(<<Str(<<"T", "o">>)>>)]>>),
   shouldRange |-> Obj(<<[key |-> "age", val |-> RangeExpression]>>),
   sort |-> Arr(<<Obj(<<[key |-> "age", val |-> Str(<<"a", "s", "c">>)]>>)>>),
   fuzziness |-> 2]

MustCategories ==
  {"mustNotMatch", "mustFuzzyMatch", "mustAllMatch", "mustMatch",
   "mustMatchPhrase", "mustArray", "mustRange", "matchAll"}

ShouldCategories ==
  {"shouldNotMatch", "shouldFuzzyMatch", "shouldAllMatch", "shouldMatch",
   "shouldArray", "shouldRange"}

\* every combination of must categories with no or all other options, and
\* every combination of should categories with no or all other options
CategoryOptSets ==
  {[k \in ks \cup rest |-> FullSearchOpts[k]] :
     ks \in SUBSET MustCategories,
     rest \in {{}, ShouldCategories \cup {"sort", "fuzziness"}}}
  \cup
  {[k \in ks \cup rest |-> FullSearchOpts[k]] :
     ks \in SUBSET ShouldCategories,
     rest \in {{}, MustCategories \cup {"sort", "fuzziness"}}}

\* mustFuzzyMatch / shouldFuzzyMatch: per field a text in upper or lower
\* case, a number or a list
FuzzyObjects ==
  {Obj(<<>>),
   Obj(<<[key |-> "name", val |-> Str(<<"M", "a">>)]>>),
   Obj(<<[key |-> "name", val |-> Str(<<"m", "a">>)]>>),
   Obj(<<[key |-> "name", val |-> Num(5)]>>),
   Obj(<<[key |-> "name", val |-> Arr(<<Str(<<"M", "a">>), Num(5)>>)]>>),
   Obj(<<[key |-> "name", val |-> Str(<<"M", "a">>)],
         [key |-> "breed", val |-> Str(<<"S", "i">>)]>>)}

FuzzyOptSets ==
  {mf @@ sf @@ fz :
     mf \in {EmptyObj} \cup {[mustFuzzyMatch |-> o] : o \in FuzzyObjects},
     sf \in {EmptyObj} \cup {[shouldFuzzyMatch |-> o] : o \in FuzzyObjects},
     fz \in {EmptyObj, [fuzziness |-> 2]}}

SearchOptSets ==
  PagingTermOptSets \cup PhraseOptSets \cup ArrayOptSets \cup RangeOptSets
    \cup CategoryOptSets \cup FuzzyOptSets

\* aggregation option sets: paging, groupBy and the term categories
AggTermObjects ==
  {Obj(<<>>),
   Obj(<<[key |-> "breed", val |-> Str(<<"S", "i">>)]>>),
   Obj(<<[key |-> "name", val |-> Arr(<<>>)]>>),
   Obj(<<[key |-> "name", val |-> Arr(<<Str(<<"T", "o">>), Num(5)>>)],
         [key |-> "breed", val |-> Str(<<"s", "i">>)]>>)}

AggOptSets ==
  {pg @@ ps @@ gb @@ mm @@ sm :
     pg \in {EmptyObj} \cup {[page |-> p] : p \in 0 .. MaxPage},
     ps \in {EmptyObj} \cup {[pageSize |-> z] : z \in 0 .. MaxPageSize},
     gb \in {EmptyObj, [groupBy |-> Str(<<"b", "r", "e", "e", "d">>)]},
     mm \in {EmptyObj} \cup {[mustMatch |-> o] : o \in AggTermObjects},
     sm \in {EmptyObj} \cup {[shouldMatch |-> o] : o \in AggTermObjects}}

ModelAggUri ==
  [domain |-> "http://localhost:9200", index |-> <<"cats*">>,
   path |-> "/_search?search_type=count&preference=_primary_first"]

NotBuilt == [status |-> "none"]

(***************************************************************************)
(* The request doSearchAndNormalizeResults hands to backOffRequest          *)
(***************************************************************************)
IsUndefined(v) == ToString(v) = ToString(Undefined)

IsNaN(v) == ToString(v) = ToString(NaN)

\* JSON.stringify(body), as the JSON document it denotes: a key whose value
\* is undefined is left out, NaN is written as null
JSONstringify(body) ==
  [k \in {x \in DOMAIN body : ~IsUndefined(body[x])} |->
     IF IsNaN(body[k]) THEN Null ELSE body[k]]

\* reqOpts, with reqOpts.auth when options.auth is set
RequestOptions(uri, body, options) ==
  [method |-> "POST", url |-> uri, body |-> JSONstringify(body)]
  @@ (IF "auth" \in DOMAIN options /\ ~IsUndefined(options.auth)
        THEN [auth |-> [user |-> options.auth.user,
                        pass |-> options.auth.password,
                        sendImmediately |-> FALSE]]
        ELSE EmptyObj)

\* the options a model's search passes on: mergeModelOptions of the
\* defaults for the Cat model
ModelOptions ==
  [protocol |-> "http", host |-> "localhost", port |-> 9200, prefix |-> "",
   type |-> "cats", auth |-> Undefined]

ModelSearchUri ==
  [domain |-> "http://localhost:9200", index |-> <<"cats*">>,
   path |-> "/_search?search_type=dfs_query_then_fetch&preference=_primary_first"]

(***************************************************************************)
(* mergeOptions and makeDomainUri.  Connection option values are tagged    *)
(* like the builder's values; their texts are compared and concatenated    *)
(* only, and are written as string literals.                               *)
(***************************************************************************)
defaultOptions ==
  [protocol |-> Str("http"), host |-> Str("localhost"), port |-> Num(9200),
   prefix |-> Str("")]

\* the truthiness of a value: undefined, null, '' and 0 are falsy
Truthy(val) ==
  IF IsUndefined(val)
    THEN FALSE
    ELSE CASE val.t = "string" -> val.v # ""
           [] val.t = "number" -> val.v # 0
           [] val.t = "null" -> FALSE
           [] OTHER -> TRUE

\* a !== b on values that are both defined
StrictlyDiffer(a, b) == a.t # b.t \/ a.v # b.v

UrlTexts == {"localhost:9200", "http://es1:9200", "https://es1:9300", "es1"}

\* rgxUrl.exec(url) with rgxUrl = /^((http|https):\/\/)?(.+):([0-9]+)/ over
\* the url texts above: null, or the groups 2, 3 and 4 (texts)
rgxUrlExec(url) ==
  CASE url = "localhost:9200" ->
         [matched |-> TRUE, protocol |-> Undefined,
          hostname |-> Str("localhost"), port |-> Str("9200")]
    [] url = "http://es1:9200" ->
         [matched |-> TRUE, protocol |-> Str("http"),
          hostname |-> Str("es1"), port |-> Str("9200")]
    [] url = "https://es1:9300" ->
         [matched |-> TRUE, protocol |-> Str("https"),
          hostname |-> Str("es1"), port |-> Str("9300")]
    [] OTHER -> [matched |-> FALSE]

\* an options argument that is an object (its keys are the record's fields)
IsOptionsObject(options) == ~IsUndefined(options) /\ "t" \notin DOMAIN options

\* grouper, flatten and auth are copied whatever branch was taken
CopiedOptions(options) ==
  [grouper |-> Get(options, "grouper"), flatten |-> Get(options, "flatten"),
   auth |-> Get(options, "auth")]

\* the url branch; urlMatch[3] and urlMatch[4] are never empty when the
\* expression matched, so the two checks on them never throw
mergeUrlOptions(options) ==
  LET urlMatch == rgxUrlExec(options.url.v) IN
  IF ~urlMatch.matched
    THEN [threw |-> TRUE,
          error |-> "url from options must contain host and port"]
    ELSE IF /\ Truthy(urlMatch.protocol)
            /\ Truthy(Get(options, "protocol"))
            /\ StrictlyDiffer(urlMatch.protocol, options.protocol)
      THEN [threw |-> TRUE,
            error |-> "url specifies different protocol than protocol specified in options"]
      ELSE IF /\ Truthy(Get(options, "port"))
              /\ StrictlyDiffer(urlMatch.port, options.port)
        THEN [threw |-> TRUE,
              error |-> "url specifies different port than port specified in options"]
        ELSE [threw |-> FALSE,
              value |->
                [protocol |->
                   IF Truthy(urlMatch.protocol) THEN urlMatch.protocol
                   ELSE IF Truthy(Get(options, "protocol"))
                     THEN options.protocol
                     ELSE defaultOptions.protocol,
                 host |-> urlMatch.hostname,
                 port |-> urlMatch.port,
                 prefix |->
                   IF "prefix" \in DOMAIN options /\ options.prefix.t = "string"
                     THEN options.prefix ELSE Str("")]
                @@ CopiedOptions(options)]

\* mergeOptions(options): the merged options, or the error thrown
mergeOptions(options) ==
  IF ~IsOptionsObject(options) /\ ~Truthy(options)
    THEN [threw |-> FALSE, value |-> defaultOptions]
    ELSE IF ~IsOptionsObject(options)
      THEN [threw |-> TRUE,
            error |-> "elmongoose options was specified, but is not an object"]
      ELSE IF Truthy(Get(options, "url"))
        THEN mergeUrlOptions(options)
        ELSE [threw |-> FALSE,
              value |->
                [key \in DOMAIN defaultOptions |->
                   IF Truthy(Get(options, key))
                     THEN options[key] ELSE defaultOptions[key]]
                @@ CopiedOptions(options)]

\* the text of a port inside a uri
PortText(port) == IF port.t = "number" THEN ToString(port.v) ELSE port.v

\* makeDomainUri(options): url.format of protocol, hostname and port
makeDomainUri(options) ==
  IF Truthy(options.port)
    THEN options.protocol.v \o "://" \o options.host.v \o ":"
         \o PortText(options.port)
    ELSE options.protocol.v \o "://" \o options.host.v

\* arguments of mergeOptions: nothing, null, a text, and objects with any
\* of url, protocol, host, port (number or text) and prefix
MergeOptionsInputs ==
  {Undefined, Null, Str("es1:9200")}
  \cup {u @@ pr @@ h @@ po @@ px :
          u \in {EmptyObj} \cup {[url |-> Str(t)] : t \in UrlTexts},
          pr \in {EmptyObj, [protocol |-> Str("http")],
                  [protocol |-> Str("https")]},
          h \in {EmptyObj, [host |-> Str("localhost")], [host |-> Str("es1")]},
          po \in {EmptyObj, [port |-> Num(9200)], [port |-> Str("9200")],
                  [port |-> Num(9300)]},
          px \in {EmptyObj, [prefix |-> Str("test")]}}

\* arguments of elmongoose.search.config
ConfigInputs ==
  {EmptyObj,
   [host |-> Str("es1")],
   [port |-> Num(9300)],
   [protocol |-> Str("https")],
   [prefix |-> Str("test")],
   [host |-> Str("es1"), prefix |-> Str("test")],
   [url |-> Str("https://es1:9300")],
   [url |-> Str("es1")]}

\* how many times elmongoose.search.config is called before the search
MaxConfigs == 2

\* option sets of elmongoose.search: `collections` absent, empty or listed
SearchCallOptSets ==
  {c @@ mm :
     c \in {EmptyObj, [collections |-> <<>>], [collections |-> <<"cats">>],
            [collections |-> <<"cats", "dogs">>]},
     mm \in {EmptyObj,
             [mustMatch |->
                Obj(<<[key |-> "name", val |-> Str(<<"T", "o">>)]>>)]}}

(***************************************************************************)
(* State of one logical request                                            *)
(***************************************************************************)
VARIABLES
  phase,      \* "idle", "inflight" (request pending), "timer" (setTimeout
              \* pending) or "quiet" (nothing pending)
  op,         \* which caller issued the request: search, agg, index, unindex
  reqOpts,    \* the reqOpts argument of backOffRequest
  attempts,   \* the `attempts` local of the running makeAttempts
  requests,   \* number of request() calls issued so far
  waitTime,   \* delay of the pending setTimeout (0 when none is pending)
  outcomes,   \* what request() reported for each attempt, in order
  cbLog,      \* every invocation of backOffRequest's cb, in order
  delivered,  \* every invocation of the caller's cb, in order
  searchOpts, \* the option set a caller hands to the query builder
  built,      \* the request body built from searchOpts, once built
  elasticUrlOptions, \* the module variable of elmongoose.js, null at first
  mergedOptions,     \* what a call of mergeOptions returned or threw
  configLog,         \* the calls of elmongoose.search.config made so far
  running            \* the state of each of several concurrent backOffRequest
                     \* calls: one closure per call

tvars ==
  <<phase, op, reqOpts, attempts, requests, waitTime, outcomes, cbLog,
    delivered>>

bvars == <<searchOpts, built>>

cvars == <<elasticUrlOptions, mergedOptions, configLog>>

rvars == <<running>>

vars == <<tvars, bvars, cvars, rvars>>

\* how many backOffRequest calls run side by side
NumRequests == 2

Requests == 1 .. NumRequests

\* a call that has not been made yet
IdleRequest ==
  [phase |-> "idle", op |-> "search", reqOpts |-> SearchReqOpts,
   attempts |-> 0, requests |-> 0, waitTime |-> 0, outcomes |-> <<>>,
   cbLog |-> <<>>, delivered |-> <<>>]

TransportInit ==
  /\ running = [i \in Requests |-> IdleRequest]
  /\ phase = "idle"
  /\ op = "search"
  /\ reqOpts = SearchReqOpts
  /\ attempts = 0
  /\ requests = 0
  /\ waitTime = 0
  /\ outcomes = <<>>
  /\ cbLog = <<>>
  /\ delivered = <<>>

\* `var elasticUrlOptions = null`, nothing configured or merged yet
NotConfigured ==
  /\ elasticUrlOptions = Null
  /\ mergedOptions = NotBuilt
  /\ configLog = <<>>

Init ==
  /\ TransportInit
  /\ searchOpts = EmptyObj
  /\ built = NotBuilt
  /\ NotConfigured

\* makeAttempts(a): attempts += 1; request(reqOpts, ...)
MakeAttempts(a) ==
  /\ attempts' = a + 1
  /\ requests' = requests + 1
  /\ phase' = "inflight"
  /\ waitTime' = 0

\* doSearchAndNormalizeResults, doAggAndNormalizeResults, index and unindex
\* reach backOffRequest(reqOpts, cb), which runs makeAttempts(0)
Call ==
  /\ phase = "idle"
  /\ \E o \in Ops :
       /\ op' = o
       /\ reqOpts' = ReqOptsOf(o)
  /\ MakeAttempts(0)
  /\ UNCHANGED <<outcomes, cbLog, delivered>>
  /\ UNCHANGED <<bvars, cvars, rvars>>

\* the callback of request(): (err, res, body)
HandleResponse(err, body) ==
  LET calls == CallbackCalls(err, body, attempts, reqOpts) IN
  /\ phase = "inflight"
  /\ outcomes' = Append(outcomes, [err |-> err, body |-> body])
  /\ cbLog' = cbLog \o calls
  /\ delivered' =
       delivered \o [i \in 1 .. Len(calls) |-> Normalize(op, calls[i])]
  /\ IF err # NoErr /\ ShouldRetry(err, attempts)
       THEN /\ phase' = "timer"
            /\ \E r \in RandomJitter : waitTime' = WaitTime(attempts, r)
       ELSE /\ phase' = "quiet"
            /\ waitTime' = 0
  /\ UNCHANGED <<op, reqOpts, attempts, requests>>
  /\ UNCHANGED <<bvars, cvars, rvars>>

ResponseError == \E err \in ErrCodes : HandleResponse(err, BodyUndefined)

ResponseBody == \E body \in ResponseBodies : HandleResponse(NoErr, body)

\* the setTimeout callback: makeAttempts(attempts)
TimerFires ==
  /\ phase = "timer"
  /\ MakeAttempts(attempts)
  /\ UNCHANGED <<op, reqOpts, outcomes, cbLog, delivered>>
  /\ UNCHANGED <<bvars, cvars, rvars>>

Next == Call \/ ResponseError \/ ResponseBody \/ TimerFires

Spec == Init /\ [][Next]_vars

\* request() calls its callback for every attempt it was given, and a timer
\* set with setTimeout fires
Respond == ResponseError \/ ResponseBody

FairNext == Call \/ Respond \/ TimerFires

FairSpec ==
  Init /\ [][FairNext]_vars /\ WF_vars(Respond) /\ WF_vars(TimerFires)

(***************************************************************************)
(* Several backOffRequest calls side by side.  Each call has its own       *)
(* closure: reqOpts, cb, parsedBody, and the `attempts` parameter of each  *)
(* makeAttempts invocation.  Responses and timers are events of the one    *)
(* event loop and run in any order.                                        *)
(***************************************************************************)
ConcOps == {"search", "index"}

ConcErrCodes == {"ECONNRESET", "ECONNREFUSED"}

ConcBodies == {BodyHtml, BodyEngineError, BodyTwoHits}

\* the least and the greatest jitter
ConcJitter == {0, backOffRate - 1}

\* variant: one attempts counter shared by all calls
AttemptsSeenShared(run, i) ==
  CHOOSE a \in {run[j].attempts : j \in Requests} :
    \A j \in Requests : run[j].attempts <= a

\* the `attempts` the callbacks of call i close over
AttemptsSeen(run, i) == run[i].attempts

ConcInit ==
  /\ TransportInit
  /\ searchOpts = EmptyObj
  /\ built = NotBuilt
  /\ NotConfigured

\* backOffRequest(reqOpts, cb) of call i: makeAttempts(0)
ConcCall(i) ==
  /\ running[i].phase = "idle"
  /\ \E o \in ConcOps :
       running' =
         [running EXCEPT ![i] =
            [@ EXCEPT !.op = o, !.reqOpts = ReqOptsOf(o), !.attempts = 1,
                      !.requests = @ + 1, !.phase = "inflight"]]
  /\ UNCHANGED <<tvars, bvars, cvars>>

\* the callback of request() of call i
ConcHandleResponse(i, err, body) ==
  LET att == AttemptsSeen(running, i)
      calls == CallbackCalls(err, body, att, running[i].reqOpts)
  IN /\ running[i].phase = "inflight"
     /\ \E r \in ConcJitter :
          running' =
            [running EXCEPT ![i] =
               [@ EXCEPT
                  !.outcomes = Append(@, [err |-> err, body |-> body]),
                  !.cbLog = @ \o calls,
                  !.delivered =
                    @ \o [k \in 1 .. Len(calls) |->
                            Normalize(running[i].op, calls[k])],
                  !.phase = IF err # NoErr /\ ShouldRetry(err, att)
                              THEN "timer" ELSE "quiet",
                  !.waitTime = IF err # NoErr /\ ShouldRetry(err, att)
                                 THEN WaitTime(att, r) ELSE 0]]
     /\ UNCHANGED <<tvars, bvars, cvars>>

ConcResponseError ==
  \E i \in Requests, err \in ConcErrCodes :
    ConcHandleResponse(i, err, BodyUndefined)

ConcResponseBody ==
  \E i \in Requests, body \in ConcBodies : ConcHandleResponse(i, NoErr, body)

\* the setTimeout callback of call i: makeAttempts(attempts)
ConcTimerFires(i) ==
  /\ running[i].phase = "timer"
  /\ running' =
       [running EXCEPT ![i] =
          [@ EXCEPT !.attempts = AttemptsSeen(running, i) + 1,
                    !.requests = @ + 1, !.phase = "inflight",
                    !.waitTime = 0]]
  /\ UNCHANGED <<tvars, bvars, cvars>>

ConcCalls == \E i \in Requests : ConcCall(i)

ConcTimers == \E i \in Requests : ConcTimerFires(i)

ConcNext == ConcCalls \/ ConcResponseError \/ ConcResponseBody \/ ConcTimers

ConcSpec == ConcInit /\ [][ConcNext]_vars

(***************************************************************************)
(* The query builder applied to an option set                              *)
(***************************************************************************)
BuildInit ==
  /\ TransportInit
  /\ searchOpts \in SearchOptSets
  /\ built = NotBuilt
  /\ NotConfigured

\* mergeSearchBody(searchOpts) called on the caller's option set as it is
CallMergeSearchBody ==
  /\ built = NotBuilt
  /\ built' = IF mergeSearchBodyThrows(searchOpts)
                THEN [status |-> "threw", via |-> "mergeSearchBody",
                      error |-> "Value is not an array"]
                ELSE [status |-> "built", via |-> "mergeSearchBody",
                      body |-> mergeSearchBody(searchOpts)]
  /\ searchOpts' = searchOptsAfter(searchOpts)
  /\ UNCHANGED <<tvars, cvars, rvars>>

\* doSearchAndNormalizeResults(searchUri, searchOpts, cb, options): merge the
\* defaults, build the body, build reqOpts, read options.auth, then
\* backOffRequest(reqOpts, ...), which runs makeAttempts(0)
DoSearchAndNormalizeResults(uri, opts, options) ==
  LET merged == mergeSearchOptions(opts) IN
  /\ searchOpts' = searchOptsAfter(opts)
  /\ IF mergeSearchBodyThrows(merged)
       THEN /\ built' = [status |-> "threw",
                         via |-> "doSearchAndNormalizeResults",
                         error |-> "Value is not an array"]
            /\ UNCHANGED tvars
       ELSE IF IsUndefined(options)
         THEN /\ built' = [status |-> "threw",
                           via |-> "doSearchAndNormalizeResults",
                           error |-> "TypeError: Cannot read property 'auth' of undefined"]
              /\ UNCHANGED tvars
         ELSE /\ built' = [status |-> "built",
                           via |-> "doSearchAndNormalizeResults",
                           body |-> mergeSearchBody(merged)]
              /\ op' = "search"
              /\ reqOpts' = RequestOptions(uri, mergeSearchBody(merged), options)
              /\ MakeAttempts(0)
              /\ UNCHANGED <<outcomes, cbLog, delivered>>

\* Model.search(searchOpts, cb)
CallDoSearchBuild ==
  /\ built = NotBuilt
  /\ DoSearchAndNormalizeResults(ModelSearchUri, searchOpts, ModelOptions)
  /\ UNCHANGED <<cvars, rvars>>

BuildNext == CallMergeSearchBody \/ CallDoSearchBuild

BuildSpec == BuildInit /\ [][BuildNext]_vars

(***************************************************************************)
(* The aggregation builder applied to an option set                        *)
(***************************************************************************)
AggInit ==
  /\ TransportInit
  /\ searchOpts \in AggOptSets
  /\ built = NotBuilt
  /\ NotConfigured

\* mergeAggBody(aggOpts) called on the caller's option set as it is
CallMergeAggBody ==
  /\ built = NotBuilt
  /\ built' = [status |-> "built", via |-> "mergeAggBody",
               body |-> mergeAggBody(searchOpts)]
  /\ UNCHANGED <<searchOpts, tvars, cvars, rvars>>

\* doAggAndNormalizeResults(searchUri, aggOpts, cb, options): the merged
\* options are assigned to a variable that is not read again, the body is
\* built from aggOpts itself
DoAggAndNormalizeResults(uri, aggOpts, options) ==
  LET merged == mergeAggOptions(aggOpts)
      body == mergeAggBody(aggOpts)
  IN IF IsUndefined(options)
       THEN /\ built' = [status |-> "threw",
                         via |-> "doAggAndNormalizeResults",
                         error |-> "TypeError: Cannot read property 'auth' of undefined"]
            /\ UNCHANGED tvars
       ELSE /\ built' = [status |-> "built",
                         via |-> "doAggAndNormalizeResults",
                         body |-> body]
            /\ op' = "agg"
            /\ reqOpts' = RequestOptions(uri, body, options)
            /\ MakeAttempts(0)
            /\ UNCHANGED <<outcomes, cbLog, delivered>>

\* Model.aggregateCount(searchOpts, cb)
CallDoAgg ==
  /\ built = NotBuilt
  /\ DoAggAndNormalizeResults(ModelAggUri, searchOpts, ModelOptions)
  /\ UNCHANGED <<searchOpts, cvars, rvars>>

AggNext == CallMergeAggBody \/ CallDoAgg

AggSpec == AggInit /\ [][AggNext]_vars

(***************************************************************************)
(* mergeOptions, elmongoose.search.config and elmongoose.search            *)
(***************************************************************************)
ConfigInit ==
  /\ TransportInit
  /\ searchOpts \in SearchCallOptSets
  /\ built = NotBuilt
  /\ NotConfigured

\* helpers.mergeOptions(options) called on its own
CallMergeOptions ==
  /\ mergedOptions = NotBuilt
  /\ configLog = <<>>
  /\ built = NotBuilt
  /\ \E options \in MergeOptionsInputs :
       mergedOptions' =
         [status |-> IF mergeOptions(options).threw THEN "threw" ELSE "returned",
          options |-> options]
         @@ mergeOptions(options)
  /\ UNCHANGED <<elasticUrlOptions, configLog, tvars, bvars, rvars>>

\* elmongoose.search.config(options): the keys of the current object are
\* overwritten in place, then the variable is assigned mergeOptions(options);
\* when mergeOptions throws the assignment does not happen
Config(options) ==
  LET inPlace ==
        IF elasticUrlOptions = Null
          THEN Null
          ELSE [key \in DOMAIN elasticUrlOptions |->
                  IF Truthy(Get(options, key))
                    THEN options[key] ELSE elasticUrlOptions[key]]
      merged == mergeOptions(options)
  IN /\ elasticUrlOptions' = IF merged.threw THEN inPlace ELSE merged.value
     /\ configLog' = Append(configLog, [options |-> options,
                                        threw |-> merged.threw])

CallConfig ==
  /\ built = NotBuilt
  /\ mergedOptions = NotBuilt
  /\ Len(configLog) < MaxConfigs
  /\ \E options \in ConfigInputs : Config(options)
  /\ UNCHANGED <<mergedOptions, tvars, bvars, rvars>>

\* elmongoose.search(searchOpts, cb).  When no prefix is configured and no
\* collections are given, `_all` is stored in searchOpts.collections while
\* the local `collections` stays undefined; doSearchAndNormalizeResults is
\* called without its `options` argument.
ElmongooseSearch(opts) ==
  LET merged == mergeOptions(elasticUrlOptions)
      listed == Get(opts, "collections")
      collections ==
        IF Truthy(merged.value.prefix)
          THEN IF ~IsUndefined(listed) /\ Len(listed) > 0
                 THEN [i \in 1 .. Len(listed) |->
                         merged.value.prefix.v \o "-" \o listed[i]]
                 ELSE <<merged.value.prefix.v \o "*">>
          ELSE listed
      opts1 ==
        IF ~Truthy(merged.value.prefix) /\ IsUndefined(listed)
          THEN [collections |-> <<"_all">>] @@ opts
          ELSE opts
  IN IF merged.threw
       THEN /\ built' = [status |-> "threw", via |-> "elmongoose.search",
                         error |-> merged.error]
            /\ UNCHANGED <<elasticUrlOptions, searchOpts, tvars>>
       ELSE /\ elasticUrlOptions' = merged.value
            /\ IF IsUndefined(collections)
                 THEN /\ built' =
                           [status |-> "threw", via |-> "elmongoose.search",
                            error |-> "TypeError: Cannot read property 'join' of undefined"]
                      /\ searchOpts' = opts1
                      /\ UNCHANGED tvars
                 ELSE DoSearchAndNormalizeResults(
                        [domain |-> makeDomainUri(merged.value),
                         index |-> collections,
                         path |-> "/_search?search_type=dfs_query_then_fetch&preference=_primary_first"],
                        opts1, Undefined)

CallElmongooseSearch ==
  /\ built = NotBuilt
  /\ mergedOptions = NotBuilt
  /\ ElmongooseSearch(searchOpts)
  /\ UNCHANGED <<mergedOptions, configLog, rvars>>

ConfigNext == CallMergeOptions \/ CallConfig \/ CallElmongooseSearch

ConfigSpec == ConfigInit /\ [][ConfigNext]_vars

(***************************************************************************)
(* Properties of backOffRequest                                            *)
(***************************************************************************)
LastOutcome == outcomes[Len(outcomes)]

LastCall == cbLog[Len(cbLog)]

\* the first k attempts all failed with ECONNRESET, EPIPE or ETIMEDOUT
FirstFailedRetryably(k) ==
  /\ Len(outcomes) >= k
  /\ \A i \in 1 .. k : outcomes[i].err \in RetryableCodes

\* the last attempt completed without transport error
LastCompleted == outcomes # <<>> /\ LastOutcome.err = NoErr

\* C1: at most 3 HTTP attempts are ever issued for one backOffRequest call,
\* and when every attempt fails with ECONNRESET, EPIPE or ETIMEDOUT the
\* transport error handed to the callback carries attempts = 3 and the
\* original request options.
C1_AtMostThreeAttempts ==
  /\ requests <= 3
  /\ \A i \in DOMAIN cbLog :
       (cbLog[i].kind = "transport" /\ FirstFailedRetryably(Len(outcomes)))
         => (cbLog[i].attempts = 3 /\ cbLog[i].reqOpts = reqOpts)

\* C2: when the first k attempts (k = 1 or 2) fail with a retryable error
\* and attempt k+1 returns valid JSON without an `error` field, the callback
\* has received that parsed reply as success after exactly k+1 attempts and
\* has received no error for the request.
C2_TransientFailureNotSurfaced ==
  \A k \in {1, 2} :
    ( /\ Len(outcomes) = k + 1
      /\ FirstFailedRetryably(k)
      /\ LastOutcome.err = NoErr
      /\ ~JSONparse(LastOutcome.body).threw
      /\ "error" \notin DOMAIN JSONparse(LastOutcome.body).value )
    => ( /\ requests = k + 1
         /\ cbLog = << [kind |-> "success",
                        body |-> JSONparse(LastOutcome.body).value] >> )

\* C3: the callback of backOffRequest is invoked exactly once per logical
\* request: never more than once, and once when the request has ended.
C3_CallbackExactlyOnce ==
  /\ Len(cbLog) <= 1
  /\ (phase = "quiet" => Len(cbLog) = 1)

\* C4 (as stated): the wait scheduled before attempt n (n = 2 or 3) lies in
\* [500*n, 500*n + 500).
C4_WaitBeforeAttemptTimesN ==
  (phase = "timer" /\ attempts + 1 \in {2, 3})
    => ( /\ waitTime >= 500 * (attempts + 1)
         /\ waitTime < 500 * (attempts + 1) + 500 )

\* C4 (amended): the wait scheduled before attempt n (n = 2 or 3) lies in
\* [500*(n-1), 500*(n-1) + 500): the base delay is multiplied by the number
\* of attempts already made.
C4_WaitBeforeAttempt ==
  (phase = "timer" /\ attempts + 1 \in {2, 3})
    => ( /\ waitTime >= 500 * attempts
         /\ waitTime < 500 * attempts + 500 )

\* a timer pending before attempt 3 with a delay above the floor
C4_Witness == phase = "timer" /\ attempts + 1 = 3 /\ waitTime = 1250

C6_MalformedReplyFatal ==
  (LastCompleted /\ JSONparse(LastOutcome.body).threw)
  => ( /\ phase = "quiet"
       /\ waitTime = 0
       /\ requests = Len(outcomes)
       /\ LastCall.kind = "malformed"
       /\ LastCall.kind \notin {"transport", "engine"}
       /\ LastCall.elasticsearchReply = LastOutcome.body
       /\ LastCall.reqOpts = reqOpts
       /\ \A i \in DOMAIN cbLog : cbLog[i].kind # "success" )

\* an unparsable body received on the first attempt
C6_Witness ==
  /\ Len(outcomes) = 1
  /\ LastOutcome = [err |-> NoErr, body |-> BodyHtml]
  /\ phase = "quiet"

\* the event index / unindex emits on success
EventOf(o) ==
  IF o = "index" THEN "elmongoose-indexed" ELSE "elmongoose-unindexed"

Emitted == {i \in DOMAIN delivered : delivered[i].err = NoErr}

Reported == {i \in DOMAIN delivered : delivered[i].err # NoErr}

\* C17: an index (unindex) call ends in exactly one of two outcomes: the
\* 'elmongoose-indexed' ('elmongoose-unindexed') event emitted once with the
\* parsed engine reply, or a reported error; never both for one call, and no
\* event for a reply that failed to parse or carried an `error` field.
C17_IndexEventOrError ==
  op \in {"index", "unindex"} =>
    /\ Cardinality(Emitted) <= 1
    /\ ~(Emitted # {} /\ Reported # {})
    /\ phase = "quiet" => (Emitted # {} \/ Reported # {})
    /\ \A i \in Emitted :
         /\ delivered[i].event = EventOf(op)
         /\ \E k \in DOMAIN outcomes :
              /\ outcomes[k].err = NoErr
              /\ ~JSONparse(outcomes[k].body).threw
              /\ "error" \notin DOMAIN JSONparse(outcomes[k].body).value
              /\ delivered[i].body = JSONparse(outcomes[k].body).value

(***************************************************************************)
(* Properties of the result normalizers                                    *)
(***************************************************************************)
\* C7: search normalization is total: an error from the transport yields an
\* error and no result; a reply lacking `hits` yields the missing-hits error
\* and no result; otherwise the result is exactly {total, hits} with total
\* = reply.hits.total and hits = the hit array when present and non-empty,
\* else the empty sequence; no match gives total 0 and an empty array.
C7_SearchNormalization ==
  op = "search" =>
    /\ Len(delivered) = Len(cbLog)
    /\ \A i \in DOMAIN cbLog :
         LET c == cbLog[i]
             d == delivered[i]
         IN /\ c.kind # "success"
                 => (d.err # NoErr /\ "result" \notin DOMAIN d)
            /\ (c.kind = "success" /\ "hits" \notin DOMAIN c.body)
                 => ( /\ d.err = "Unexpected Elasticsearch reply"
                      /\ "result" \notin DOMAIN d )
            /\ (c.kind = "success" /\ "hits" \in DOMAIN c.body)
                 => ( /\ d.err = NoErr
                      /\ DOMAIN d.result = {"total", "hits"}
                      /\ d.result.total = c.body.hits.total
                      /\ d.result.hits =
                           IF /\ "hits" \in DOMAIN c.body.hits
                              /\ c.body.hits.hits # <<>>
                             THEN c.body.hits.hits
                             ELSE <<>>
                      /\ (c.body.hits.total = 0 /\ c.body.hits.hits = <<>>)
                           => d.result = [total |-> 0, hits |-> <<>>] )

\* a search that matched nothing was delivered
C7_Witness ==
  /\ op = "search"
  /\ LastCompleted
  /\ LastOutcome.body = BodyNoMatch
  /\ delivered[Len(delivered)] =
       [err |-> NoErr, result |-> [total |-> 0, hits |-> <<>>]]

\* C8: for every reply with a `hits` field the aggregation result has total
\* = reply.hits.total, aggregation = reply.aggregations, and a `hits`
\* sequence that is never absent (the hit array when non-empty, else the
\* empty sequence); a reply without `hits` yields the missing-hits error.
C8_AggResultShape ==
  op = "agg" =>
    /\ Len(delivered) = Len(cbLog)
    /\ \A i \in DOMAIN cbLog :
         LET c == cbLog[i]
             d == delivered[i]
         IN /\ (c.kind = "success" /\ "hits" \notin DOMAIN c.body)
                 => ( /\ d.err = "Unexpected Elasticsearch reply"
                      /\ "result" \notin DOMAIN d )
            /\ (c.kind = "success" /\ "hits" \in DOMAIN c.body)
                 => ( /\ d.err = NoErr
                      /\ d.result.total = c.body.hits.total
                      /\ d.result.aggregation = Get(c.body, "aggregations")
                      /\ "hits" \in DOMAIN d.result
                      /\ d.result.hits =
                           IF /\ "hits" \in DOMAIN c.body.hits
                              /\ c.body.hits.hits # <<>>
                             THEN c.body.hits.hits
                             ELSE <<>> )

(***************************************************************************)
(* Properties of the query builder                                         *)
(***************************************************************************)
\* C9: for page = p >= 1 and pageSize = s >= 1 the built body has
\* from = (p-1)*s and size = s; when page is not set, from = 0.
C9_Paging ==
  built.status = "built" =>
    /\ ( /\ "page" \in DOMAIN searchOpts
         /\ "pageSize" \in DOMAIN searchOpts
         /\ searchOpts.page >= 1
         /\ searchOpts.pageSize >= 1 )
       => ( /\ built.body.from = (searchOpts.page - 1) * searchOpts.pageSize
            /\ built.body.size = searchOpts.pageSize )
    /\ "page" \notin DOMAIN searchOpts => built.body.from = 0

\* the third page of size 2 was built: it starts at offset 4
C9_Witness ==
  /\ built.status = "built"
  /\ "page" \in DOMAIN searchOpts
  /\ "pageSize" \in DOMAIN searchOpts
  /\ searchOpts.page = 3
  /\ searchOpts.pageSize = 2
  /\ built.body.from = 4

\* what C10 expects for one entry of a term category: one filter for a
\* scalar, one per element for an array, every string lower-cased
LowerCased(val) == IF val.t = "string" THEN Str(toLowerCase(val.v)) ELSE val

ExpectedTermFiltersOfEntry(entry) ==
  IF entry.val.t = "array"
    THEN [j \in 1 .. Len(entry.val.v) |->
            TermFilter(entry.key, LowerCased(entry.val.v[j]))]
    ELSE << TermFilter(entry.key, LowerCased(entry.val)) >>

RECURSIVE ExpectedTermFiltersFrom(_, _)
ExpectedTermFiltersFrom(entries, i) ==
  IF i > Len(entries)
    THEN <<>>
    ELSE ExpectedTermFiltersOfEntry(entries[i])
         \o ExpectedTermFiltersFrom(entries, i + 1)

ExpectedTermList(key) ==
  IF key \in DOMAIN searchOpts
    THEN ExpectedTermFiltersFrom(searchOpts[key].entries, 1)
    ELSE <<>>

BuiltList(key) ==
  IF key \in DOMAIN built.body.query.bool
    THEN built.body.query.bool[key]
    ELSE <<>>

\* the `term` filters of a list of fragments, in order
TermClauses(list) == SelectSeq(list, LAMBDA f : "term" \in DOMAIN f)

\* C10: for mustMatch and shouldMatch every string value, given directly or
\* as an array element, appears lower-cased in its term filter and every
\* non-string value unchanged; an array of N values yields N term filters
\* for its field in the array's order, a single value exactly one.
C10_TermValuesLowerCased ==
  built.status = "built" =>
    /\ TermClauses(BuiltList("must")) = ExpectedTermList("mustMatch")
    /\ TermClauses(BuiltList("should")) = ExpectedTermList("shouldMatch")

\* the must list of the built body
BuiltMust == BuiltList("must")

\* the match_phrase clauses of a list of fragments, in order
PhraseClauses(list) ==
  SelectSeq(list, LAMBDA f : "query" \in DOMAIN f
                              /\ "match_phrase" \in DOMAIN f.query)

\* the field-to-phrase entries of a mustMatchPhrase value: the elements of
\* a list, or the mapping itself
PhraseEntriesOf(val) == IF val.t = "array" THEN val.v ELSE << val >>

\* the caller populated mustMatchPhrase: a non-empty list or mapping
PhrasePopulated ==
  /\ "mustMatchPhrase" \in DOMAIN searchOpts
  /\ KeyCount(searchOpts.mustMatchPhrase) > 0

\* C11: for every populated mustMatchPhrase value, given as a list of
\* field-to-phrase entries or as a single field-to-phrase mapping, the must
\* list holds one match_phrase clause per entry, so it never contributes
\* zero clauses.
C11_PhrasePerEntry ==
  (built.status = "built" /\ PhrasePopulated)
    => /\ PhraseClauses(BuiltMust) =
            [i \in 1 .. Len(PhraseEntriesOf(searchOpts.mustMatchPhrase)) |->
               [query |->
                  [match_phrase |->
                     PhraseEntriesOf(searchOpts.mustMatchPhrase)[i]]]]
       /\ Len(PhraseClauses(BuiltMust)) > 0

\* the `terms` filters of a list of fragments, in order
TermsClauses(list) == SelectSeq(list, LAMBDA f : "terms" \in DOMAIN f)

\* some field of the caller's array category `key` has a value that is not
\* an array
HasNonArrayValue(key) ==
  /\ key \in DOMAIN searchOpts
  /\ \E i \in 1 .. Len(searchOpts[key].entries) :
       searchOpts[key].entries[i].val.t # "array"

\* one `terms` filter per field of the caller's array category `key`,
\* carrying the array as given
ExpectedTermsList(key) ==
  IF key \in DOMAIN searchOpts
    THEN [i \in 1 .. Len(searchOpts[key].entries) |->
            [terms |-> [key |-> searchOpts[key].entries[i].key,
                        val |-> searchOpts[key].entries[i].val]]]
    ELSE <<>>

\* C12: when a field of mustArray or shouldArray has a value that is not an
\* array, the search fails with the configuration error raised while the
\* body is built and no HTTP request is issued; when every value is an
\* array, one `terms` filter per field is emitted with the array unchanged.
C12_NonArrayFailsFast ==
  built.status # "none" =>
    IF HasNonArrayValue("mustArray") \/ HasNonArrayValue("shouldArray")
      THEN /\ built.status = "threw"
           /\ built.error = "Value is not an array"
           /\ requests = 0
           /\ phase = "idle"
      ELSE /\ built.status = "built"
           /\ TermsClauses(BuiltList("must")) = ExpectedTermsList("mustArray")
           /\ TermsClauses(BuiltList("should")) =
                ExpectedTermsList("shouldArray")

\* a search whose shouldArray holds a string for a field was rejected
\* before any request
C12_Witness ==
  /\ built.status = "threw"
  /\ built.via = "doSearchAndNormalizeResults"
  /\ HasNonArrayValue("shouldArray")
  /\ ~HasNonArrayValue("mustArray")
  /\ requests = 0

\* the `range` filters of a list of fragments, in order
RangeClauses(list) == SelectSeq(list, LAMBDA f : "range" \in DOMAIN f)

\* a structured range expression such as { gt: 8 }
StructuredValue(val) == val.t = "object"

\* one `range` filter, in key order, per entry of the caller's range
\* category `key` whose value is a structured range expression
ExpectedRangeList(key) ==
  IF key \in DOMAIN searchOpts
    THEN Flatten([i \in 1 .. Len(searchOpts[key].entries) |->
                    IF StructuredValue(searchOpts[key].entries[i].val)
                      THEN << [range |->
                                 [key |-> searchOpts[key].entries[i].key,
                                  val |-> searchOpts[key].entries[i].val]] >>
                      ELSE <<>>])
    ELSE <<>>

\* C13: for any mustRange / shouldRange mapping the build does not fail; one
\* `range` filter keyed by the field is emitted, in key order, for each
\* entry whose value is a structured range expression and none for the
\* other entries; when every entry is dropped the must / should key is
\* absent.
C13_RangeDropsNonObjects ==
  ( /\ built.status # "none"
    /\ DOMAIN searchOpts \subseteq {"mustRange", "shouldRange"}
    /\ DOMAIN searchOpts # {} )
  => /\ built.status = "built"
     /\ BuiltList("must") = ExpectedRangeList("mustRange")
     /\ BuiltList("should") = ExpectedRangeList("shouldRange")
     /\ ("must" \in DOMAIN built.body.query.bool
           <=> ExpectedRangeList("mustRange") # <<>>)
     /\ ("should" \in DOMAIN built.body.query.bool
           <=> ExpectedRangeList("shouldRange") # <<>>)

\* the option set mergeSearchBody was given: the caller's own when it was
\* called directly, the one merged with the defaults otherwise
GivenOpts ==
  IF built.via = "mergeSearchBody"
    THEN searchOpts
    ELSE mergeSearchOptions(searchOpts)

\* C20: the must list is the concatenation, in this order, of the fragments
\* of mustNotMatch, mustFuzzyMatch, mustAllMatch, mustMatch, mustMatchPhrase,
\* mustArray, mustRange and matchAll, the should list that of shouldNotMatch,
\* shouldFuzzyMatch, shouldAllMatch, shouldMatch, shouldArray, shouldRange;
\* query.bool has `must` iff the must list is non-empty and `should` iff the
\* should list is non-empty; the empty option set gives an empty bool query
\* with from and size still there.
C20_FilterOrder ==
  built.status = "built" =>
    LET must ==
          Fragments(GivenOpts, "mustNotMatch")
            \o Fragments(GivenOpts, "mustFuzzyMatch")
            \o Fragments(GivenOpts, "mustAllMatch")
            \o Fragments(GivenOpts, "mustMatch")
            \o Fragments(GivenOpts, "mustMatchPhrase")
            \o Fragments(GivenOpts, "mustArray")
            \o Fragments(GivenOpts, "mustRange")
            \o Fragments(GivenOpts, "matchAll")
        should ==
          Fragments(GivenOpts, "shouldNotMatch")
            \o Fragments(GivenOpts, "shouldFuzzyMatch")
            \o Fragments(GivenOpts, "shouldAllMatch")
            \o Fragments(GivenOpts, "shouldMatch")
            \o Fragments(GivenOpts, "shouldArray")
            \o Fragments(GivenOpts, "shouldRange")
    IN /\ BuiltList("must") = must
       /\ BuiltList("should") = should
       /\ ("must" \in DOMAIN built.body.query.bool <=> Len(must) > 0)
       /\ ("should" \in DOMAIN built.body.query.bool <=> Len(should) > 0)
       /\ searchOpts = EmptyObj =>
            /\ built.body.query.bool = EmptyObj
            /\ {"from", "size"} \subseteq DOMAIN built.body
            /\ built.body.from = 0
            /\ built.via = "doSearchAndNormalizeResults" =>
                 /\ {"from", "size"} \subseteq DOMAIN reqOpts.body
                 /\ reqOpts.body.size = 25

\* a body built from an option set with every category populated
C20_Witness ==
  /\ built.status = "built"
  /\ (MustCategories \cup ShouldCategories) \subseteq DOMAIN searchOpts
  /\ Len(BuiltList("must")) = 9
  /\ Len(BuiltList("should")) = 8

(***************************************************************************)
(* Properties of the aggregation builder                                   *)
(***************************************************************************)
\* the number of term filters a term category of the caller's option set
\* gives rise to: one per scalar value, one per array element
RECURSIVE TermCountFrom(_, _)
TermCountFrom(entries, i) ==
  IF i > Len(entries)
    THEN 0
    ELSE (IF entries[i].val.t = "array" THEN Len(entries[i].val.v) ELSE 1)
         + TermCountFrom(entries, i + 1)

TermCount(key) ==
  IF key \in DOMAIN searchOpts
    THEN TermCountFrom(searchOpts[key].entries, 1)
    ELSE 0

ExpectedTermsAgg ==
  [terms |-> [field |-> Get(searchOpts, "groupBy"), size |-> 0]]

\* C14: the aggregation body has the filter-wrapped shape iff mustMatch or
\* shouldMatch produced a term filter, and the bare shape otherwise; in both
\* the terms aggregation has field = groupBy and size = 0; in the wrapped
\* shape filter.bool has `must` iff there are must filters and `should` iff
\* there are should filters, and they are those term filters.
C14_AggWrapIffFilters ==
  built.status = "built" =>
    LET aggs == built.body.aggs IN
    IF TermCount("mustMatch") + TermCount("shouldMatch") > 0
      THEN /\ DOMAIN aggs = {"ElmongooseAggWrapper"}
           /\ DOMAIN aggs.ElmongooseAggWrapper = {"filter", "aggs"}
           /\ aggs.ElmongooseAggWrapper.aggs =
                [ElmongooseAgg |-> ExpectedTermsAgg]
           /\ ("must" \in DOMAIN aggs.ElmongooseAggWrapper.filter.bool
                 <=> TermCount("mustMatch") > 0)
           /\ ("should" \in DOMAIN aggs.ElmongooseAggWrapper.filter.bool
                 <=> TermCount("shouldMatch") > 0)
           /\ TermCount("mustMatch") > 0 =>
                aggs.ElmongooseAggWrapper.filter.bool.must =
                  buildTermFilters(searchOpts.mustMatch)
           /\ TermCount("shouldMatch") > 0 =>
                aggs.ElmongooseAggWrapper.filter.bool.should =
                  buildTermFilters(searchOpts.shouldMatch)
      ELSE aggs = [ElmongooseAgg |-> ExpectedTermsAgg]

\* an aggregation filtered by shouldMatch only was wrapped
C14_Witness ==
  /\ built.status = "built"
  /\ TermCount("mustMatch") = 0
  /\ TermCount("shouldMatch") > 0
  /\ "mustMatch" \in DOMAIN searchOpts
  /\ "ElmongooseAggWrapper" \in DOMAIN built.body.aggs
  /\ "must" \notin DOMAIN built.body.aggs.ElmongooseAggWrapper.filter.bool

\* C15: the request body sent by doAggAndNormalizeResults always has `from`
\* and `size`; for an option set without page and pageSize the defaults
\* page = 1 and pageSize = 25 apply: from = 0 and size = 25.
C15_AggBodyPagingDefaults ==
  (built.status = "built" /\ built.via = "doAggAndNormalizeResults")
    => /\ {"from", "size"} \subseteq DOMAIN reqOpts.body
       /\ ("page" \notin DOMAIN searchOpts /\ "pageSize" \notin DOMAIN searchOpts)
            => (reqOpts.body.from = 0 /\ reqOpts.body.size = 25)

(***************************************************************************)
(* Properties of the connection options                                    *)
(***************************************************************************)
\* the port a port value denotes, be it a number or its text
PortNumber(port) ==
  IF port.t = "number"
    THEN port.v
    ELSE CASE port.v = "9200" -> 9200 [] port.v = "9300" -> 9300

\* the options mergeOptions was called with have a url the expression
\* matches
CalledWithUrl ==
  /\ mergedOptions.status # "none"
  /\ IsOptionsObject(mergedOptions.options)
  /\ "url" \in DOMAIN mergedOptions.options
  /\ rgxUrlExec(mergedOptions.options.url.v).matched

\* C16: mergeOptions called with a url and discrete protocol, host or port
\* raises a configuration error whenever a supplied field differs from the
\* protocol, host or port embedded in the url (a differing host included),
\* and returns no merged options then.
C16_UrlMismatchRejected ==
  CalledWithUrl =>
    LET options == mergedOptions.options
        urlMatch == rgxUrlExec(mergedOptions.options.url.v)
    IN ( \/ /\ "protocol" \in DOMAIN options
            /\ ~IsUndefined(urlMatch.protocol)
            /\ options.protocol # urlMatch.protocol
         \/ /\ "host" \in DOMAIN options
            /\ options.host # urlMatch.hostname
         \/ /\ "port" \in DOMAIN options
            /\ PortNumber(options.port) # PortNumber(urlMatch.port) )
       => (mergedOptions.status = "threw" /\ "value" \notin DOMAIN mergedOptions)

\* the options of a config call say what `key` is, directly or by a url
Specifies(options, key) ==
  \/ key \in DOMAIN options
  \/ (key \in {"protocol", "host", "port"} /\ "url" \in DOMAIN options)

\* C18: after config(A) then config(B), every option among protocol, host,
\* port and prefix that A set and B does not specify still has A's value in
\* the options the next elmongoose.search uses.
C18_ConfigKeepsUnspecified ==
  ( /\ Len(configLog) = 2
    /\ ~configLog[1].threw
    /\ ~configLog[2].threw )
  => \A key \in {"protocol", "host", "port", "prefix"} :
       ( /\ key \in DOMAIN configLog[1].options
         /\ ~Specifies(configLog[2].options, key) )
       => elasticUrlOptions[key] = configLog[1].options[key]

\* the collections elmongoose.search is to address
ResolvedCollections ==
  LET listed == Get(searchOpts, "collections")
      prefix == elasticUrlOptions.prefix.v
  IN IF prefix # ""
       THEN IF ~IsUndefined(listed) /\ Len(listed) > 0
              THEN [i \in 1 .. Len(listed) |-> prefix \o "-" \o listed[i]]
              ELSE <<prefix \o "*">>
       ELSE IF ~IsUndefined(listed) /\ Len(listed) > 0
              THEN listed
              ELSE <<"_all">>

\* C19: whatever the option set and the prior configuration, a call of
\* elmongoose.search has issued exactly one search request, addressed to the
\* resolved collections; it never ends without issuing the request.
C19_SearchIssuesOneRequest ==
  built.status # "none" =>
    /\ built.status = "built"
    /\ requests = 1
    /\ reqOpts.method = "POST"
    /\ reqOpts.url.index = ResolvedCollections

(***************************************************************************)
(* Properties of concurrent requests                                       *)
(***************************************************************************)
\* what the callbacks of one call do given its own outcomes alone: the k-th
\* response is handled with attempts = k
OwnCbLog(q) ==
  Flatten([k \in 1 .. Len(q.outcomes) |->
             CallbackCalls(q.outcomes[k].err, q.outcomes[k].body, k,
                           q.reqOpts)])

\* the last outcome of the call ended it
OwnEnded(q) ==
  /\ q.outcomes # <<>>
  /\ LET last == q.outcomes[Len(q.outcomes)]
     IN ~(last.err # NoErr /\ ShouldRetry(last.err, Len(q.outcomes)))

\* call i is determined by its own outcomes
OwnOutcomesOnly(i) ==
  LET q == running[i]
      n == Len(q.outcomes)
  IN /\ q.attempts = q.requests
     /\ q.requests \in {n, n + 1}
     /\ q.cbLog = OwnCbLog(q)
     /\ q.delivered = [k \in 1 .. Len(q.cbLog) |-> Normalize(q.op, q.cbLog[k])]
     /\ q.phase = IF q.requests = 0 THEN "idle"
                  ELSE IF q.requests = n + 1 THEN "inflight"
                  ELSE IF OwnEnded(q) THEN "quiet" ELSE "timer"
     /\ OwnEnded(q) => q.requests = n

\* call j can take its next step
CanProceed(j) ==
  /\ running[j].phase = "idle" => ENABLED ConcCall(j)
  /\ running[j].phase = "inflight" =>
       /\ ENABLED ConcHandleResponse(j, NoErr, BodyTwoHits)
       /\ ENABLED ConcHandleResponse(j, "ECONNRESET", BodyUndefined)
  /\ running[j].phase = "timer" => ENABLED ConcTimerFires(j)

\* C21: with several requests running through backOffRequest, a request
\* waiting in its backoff delay never keeps another from issuing attempts or
\* completing, and under every interleaving each request's attempt count,
\* callbacks and outcome are determined by its own attempt outcomes.
C21_RequestsIndependent ==
  /\ \A i \in Requests : OwnOutcomesOnly(i)
  /\ \A i \in Requests, j \in Requests :
       (i # j /\ running[i].phase = "timer") => CanProceed(j)

\* request 2 was retried and completed while request 1, after two failed
\* attempts, is waiting for its timer
C21_Witness ==
  /\ running[1].phase = "timer"
  /\ running[1].attempts = 2
  /\ Len(running[2].outcomes) = 2
  /\ running[2].phase = "quiet"
  /\ running[2].outcomes[2].err = NoErr

(***************************************************************************)
(* Frame of the query builder                                              *)
(***************************************************************************)
\* C22: building a search body leaves the caller's option set unchanged:
\* when mergeSearchBody or doSearchAndNormalizeResults has run, every
\* category value of the option set, the field values of mustFuzzyMatch and
\* shouldFuzzyMatch included, is what it was before the call.
C22_OptionSetUnchanged ==
  [][(built = NotBuilt /\ built' # NotBuilt) => searchOpts' = searchOpts]_vars

(***************************************************************************)
(* Termination of backOffRequest                                           *)
(***************************************************************************)
\* C23: every backOffRequest call terminates: when every attempt completes
\* and every timer fires, a request that was started reaches a state with no
\* attempt in flight and no timer pending in which the caller's callback has
\* been invoked, whatever the attempt outcomes.
C23_RequestTerminates ==
  (phase # "idle") ~> (phase = "quiet" /\ cbLog # <<>> /\ delivered # <<>>)

\* a request that met retryable errors only has ended
C23_Witness ==
  /\ phase = "quiet"
  /\ outcomes # <<>>
  /\ \A k \in DOMAIN outcomes : outcomes[k].err \in RetryableCodes
  /\ cbLog # <<>>
  /\ requests = Len(outcomes)

====
